---- MODULE Spec2Model ----
(***************************************************************************)
(* Model of the todo-list application: the Todo Store (todoReducer and     *)
(* the TodoProvider callbacks), the Auth Gate (useAuth) on top of the      *)
(* biometric service, and the Operation Facade (useTodos).                 *)
(*                                                                         *)
(* Strings are sequences of one-character strings, so that trim() is a     *)
(* computation.  One gated call is in flight at a time (section 5 of the   *)
(* specification); toggles, clock ticks, the restore and changes of the    *)
(* device's biometric configuration interleave with its await points.      *)
(* The storage is AsyncStorage with its three keys; the App component      *)
(* mounts the TodoProvider once its initialization has let the user in.    *)
(***************************************************************************)
EXTENDS Integers, Sequences, FiniteSets, TLC

\* ------------------------------------------------------------------ bounds
MaxTodos == 1       \* a create is requested only while fewer items than this exist
MaxTime == 2        \* cap on the millisecond clock Date.now(), which starts at 1
MaxRand == 2        \* number of distinct Math.random() suffixes
MaxTypes == 3       \* longest array of supported authentication types
MaxLaunches == 2    \* launches of the app on the same storage
MaxInFlight == 2    \* storage writes that can be in flight at the same time

\* ------------------------------------------------------------ value spaces
Undefined == "undefined"
Null == "null"
OpResult == "opResult"     \* what the caller's own operation returns

Space == " "

\* LocalAuthentication.AuthenticationType
FINGERPRINT == 1
FACIAL_RECOGNITION == 2
IRIS == 3

\* the arrays supportedAuthenticationTypesAsync() answers with
TypeLists == {<<>>, <<IRIS, FACIAL_RECOGNITION>>}

\* button labels of the dialogs
Cancel == "Cancel"
Continue == "Continue"
OpenSettings == "Open Settings"
Delete == "Delete"

\* gate outcomes (section 4.2): which branch the call took
Outcomes == {"SUCCEEDED", "FAILED", "CANCELLED", "SETTINGS_OPENED", "CONTINUED"}

VARIABLES
    state,              \* TodoProvider: [todos, loading, error]
    now,                \* the last value read from Date.now()
    hasHardware,        \* device: LocalAuthentication.hasHardwareAsync()
    isEnrolled,         \* device: LocalAuthentication.isEnrolledAsync()
    supportedTypes,     \* device: supportedAuthenticationTypesAsync()
    isAvailable,        \* useAuth state
    isAuthenticating,   \* useAuth state
    biometricType,      \* useAuth state
    pc,                 \* position of the gated call in flight
    op,                 \* the operation wrapped by the call in flight
    buttons,            \* buttons of the dialog on screen ({} if none)
    result,             \* what the call resolved to
    call,               \* observations of the call in flight (history)
    saved,              \* the argument of the last storageService.saveTodos call
    storage,            \* AsyncStorage: its three keys, whether its calls reject, and
                        \* the writes to the todo key that are in flight
    app                 \* the App component: initializeApp and the onboarding dialog

storeVars == <<state, now>>
deviceVars == <<hasHardware, isEnrolled, supportedTypes>>
hookVars == <<isAvailable, isAuthenticating, biometricType>>
callVars == <<pc, op, buttons, result, call>>
diskVars == <<saved, storage>>
vars == <<state, now, hasHardware, isEnrolled, supportedTypes, isAvailable,
          isAuthenticating, biometricType, pc, op, buttons,
          result, call, saved, storage, app>>

\* ---------------------------------------------------------------- strings
RECURSIVE TrimStart(_)
TrimStart(s) ==
    IF s # <<>> /\ Head(s) = Space THEN TrimStart(Tail(s)) ELSE s

RECURSIVE TrimEnd(_)
TrimEnd(s) ==
    IF s # <<>> /\ s[Len(s)] = Space THEN TrimEnd(SubSeq(s, 1, Len(s) - 1)) ELSE s

\* String.prototype.trim
trim(s) == TrimEnd(TrimStart(s))

\* an optional string is <<>> (undefined) or <<s>>
None == <<>>

Some(s) == <<s>>

\* input.description?.trim()
trimOpt(o) == IF o = None THEN None ELSE Some(trim(o[1]))

\* ------------------------------------------------------------- Todo Store
initialState == [todos |-> <<>>, loading |-> TRUE, error |-> Null]

FilterTodosKeepsMatching(todos, id) == SelectSeq(todos, LAMBDA todo : todo.id = id)

\* Array.prototype.filter(todo => todo.id !== id)
RECURSIVE FilterTodos(_, _)
FilterTodos(todos, id) ==
    IF todos = <<>> THEN <<>>
    ELSE (IF Head(todos).id # id THEN <<Head(todos)>> ELSE <<>>)
         \o FilterTodos(Tail(todos), id)

\* { ...todo, ...updates }: the fields present in updates override
Merge(todo, updates) ==
    [f \in DOMAIN todo |-> IF f \in DOMAIN updates THEN updates[f] ELSE todo[f]]

updatedStampsBoth(todo, updates, t) ==
    [Merge(todo, updates) EXCEPT !.updatedAt = t, !.createdAt = t]

\* line 69: { ...todo, ...updates, updatedAt: Date.now() }
updated(todo, updates, t) == [Merge(todo, updates) EXCEPT !.updatedAt = t]

toggledKeepsStamp(todo, t) == [todo EXCEPT !.completed = ~todo.completed]

\* line 88: { ...todo, completed: !todo.completed, updatedAt: Date.now() }
toggled(todo, t) == [todo EXCEPT !.completed = ~todo.completed, !.updatedAt = t]

mutationKeepsError(s, todos) == [s EXCEPT !.todos = todos]

\* lines 57-61, 65-74, 77-81, 84-92: { ...state, todos: ..., error: null }
mutation(s, todos) == [s EXCEPT !.todos = todos, !.error = Null]

appendLast(todo, todos) == todos \o <<todo>>

\* line 59: [action.payload, ...state.todos]
prepend(todo, todos) == <<todo>> \o todos

\* todoReducer; t is the value Date.now() returns inside the reducer
todoReducer(s, action, t) ==
    CASE action.type = "SET_TODOS" ->
            [s EXCEPT !.todos = action.payload, !.loading = FALSE, !.error = Null]
      [] action.type = "ADD_TODO" ->
            mutation(s, prepend(action.payload, s.todos))
      [] action.type = "UPDATE_TODO" ->
            mutation(s, [i \in 1..Len(s.todos) |->
                            IF s.todos[i].id = action.payload.id
                            THEN updated(s.todos[i], action.payload.updates, t)
                            ELSE s.todos[i]])
      [] action.type = "DELETE_TODO" ->
            mutation(s, FilterTodos(s.todos, action.payload))
      [] action.type = "TOGGLE_TODO" ->
            mutation(s, [i \in 1..Len(s.todos) |->
                            IF s.todos[i].id = action.payload
                            THEN toggled(s.todos[i], t)
                            ELSE s.todos[i]])
      [] action.type = "SET_LOADING" ->
            [s EXCEPT !.loading = action.payload]
      [] action.type = "SET_ERROR" ->
            [s EXCEPT !.error = action.payload, !.loading = FALSE]
      [] OTHER -> s

\* the Todo that addTodo builds; t1, t2, t3 are its three Date.now() reads
newTodo(input, t1, rnd, t2, t3) ==
    [id |-> <<t1, rnd>>,
     title |-> trim(input.title),
     description |-> trimOpt(input.description),
     completed |-> FALSE,
     createdAt |-> t2,
     updatedAt |-> t3]

\* --------------------------------------------------------- storageService
\* the value under a key: getItem answers null for a key that is absent
Absent == [kind |-> "absent"]

\* a string under the todo key that JSON.parse rejects
Corrupt == [kind |-> "corrupt"]

\* the object JSON.stringify writes for a todo: a key whose value is
\* undefined is left out
toJSON(todo) ==
    IF todo.description = None
    THEN [id |-> todo.id, title |-> todo.title, completed |-> todo.completed,
          createdAt |-> todo.createdAt, updatedAt |-> todo.updatedAt]
    ELSE [id |-> todo.id, title |-> todo.title, description |-> todo.description[1],
          completed |-> todo.completed,
          createdAt |-> todo.createdAt, updatedAt |-> todo.updatedAt]

\* JSON.stringify(todos)
stringify(todos) ==
    [kind |-> "json", items |-> [i \in 1..Len(todos) |-> toJSON(todos[i])]]

fromJSONDropsDescription(j) ==
    [id |-> j.id, title |-> j.title, description |-> None,
     completed |-> j.completed, createdAt |-> j.createdAt, updatedAt |-> j.updatedAt]

\* the Todo read back from a parsed object: a missing key reads as undefined
fromJSON(j) ==
    [id |-> j.id, title |-> j.title,
     description |-> IF "description" \in DOMAIN j THEN Some(j.description) ELSE None,
     completed |-> j.completed, createdAt |-> j.createdAt, updatedAt |-> j.updatedAt]

\* JSON.parse(jsonValue) as Todo[]
parse(blob) == [i \in 1..Len(blob.items) |-> fromJSON(blob.items[i])]

\* storageService.loadTodos: what it returns for the value under the todo
\* key; rejected: AsyncStorage.getItem rejected.  It has no throwing path.
loadTodos(blob, rejected) ==
    IF rejected THEN [threw |-> FALSE, value |-> <<>>]
    ELSE IF blob.kind = "absent" THEN [threw |-> FALSE, value |-> <<>>]
    ELSE IF blob.kind = "corrupt" THEN [threw |-> FALSE, value |-> <<>>]
    ELSE [threw |-> FALSE, value |-> parse(blob)]

\* storageService.saveTodos: the value it leaves under the todo key, and
\* whether it threw; rejected: AsyncStorage.setItem rejected
saveTodos(todos, blob, rejected) ==
    IF rejected THEN [threw |-> TRUE, blob |-> blob]
    ELSE [threw |-> FALSE, blob |-> stringify(todos)]

isFirstLaunchOnReject(flag, rejected) == IF rejected THEN TRUE ELSE flag = Null

\* storageService.isFirstLaunch; flag: the value under the has-launched key
isFirstLaunch(flag, rejected) == IF rejected THEN FALSE ELSE flag = Null

\* storageService.isBiometricSetupComplete
isBiometricSetupComplete(flag, rejected) == IF rejected THEN FALSE ELSE flag = "true"

\* storageService.setHasLaunched: the value it leaves under the
\* has-launched key, and whether it threw
setHasLaunched(flag, rejected) ==
    IF rejected THEN [threw |-> TRUE, flag |-> flag]
    ELSE [threw |-> FALSE, flag |-> "true"]

\* storageService.setBiometricSetupComplete
setBiometricSetupComplete(flag, rejected) ==
    IF rejected THEN [threw |-> TRUE, flag |-> flag]
    ELSE [threw |-> FALSE, flag |-> "true"]

\* ------------------------------------------------------ biometricService
\* Array.prototype.includes
includes(types, x) == \E i \in 1..Len(types) : types[i] = x

isBiometricAvailableHardwareOnly(hw, enrolled, threw) == IF threw THEN FALSE ELSE hw

\* isBiometricAvailable; threw: a platform query raised
isBiometricAvailable(hw, enrolled, threw) ==
    IF threw THEN FALSE
    ELSE IF ~hw THEN FALSE
    ELSE enrolled

\* getSupportedAuthenticationTypes
getSupportedAuthenticationTypes(types, threw) == IF threw THEN <<>> ELSE types

getBiometricTypeNameFirstListed(types) ==
    IF types = <<>> THEN "Biometric"
    ELSE IF Head(types) = FACIAL_RECOGNITION THEN "Face ID"
    ELSE IF Head(types) = FINGERPRINT THEN "Touch ID"
    ELSE "Iris"

\* getBiometricTypeName
getBiometricTypeName(types) ==
    IF includes(types, FACIAL_RECOGNITION) THEN "Face ID"
    ELSE IF includes(types, FINGERPRINT) THEN "Touch ID"
    ELSE IF includes(types, IRIS) THEN "Iris"
    ELSE "Biometric"

\* hasBiometricHardwareButNotEnrolled
hasBiometricHardwareButNotEnrolled(hw, enrolled, threw) ==
    IF threw THEN FALSE
    ELSE IF ~hw THEN FALSE
    ELSE ~enrolled

authenticateAlwaysSucceeds(platform) == [success |-> TRUE, error |-> None]

\* authenticate, after its own availability check: the AuthResult for what
\* LocalAuthentication.authenticateAsync did.  "fail": success false with no
\* error text (result.error || 'Authentication failed'); "failWithError":
\* success false with an error code; "throwError": it raised an Error with a
\* message; "throwEmptyError": an Error whose message is ''; "throw": it
\* raised something that is not an Error
authenticate(platform) ==
    IF platform = "success" THEN [success |-> TRUE, error |-> None]
    ELSE IF platform = "fail" THEN [success |-> FALSE, error |-> Some("Authentication failed")]
    ELSE IF platform = "failWithError" THEN [success |-> FALSE, error |-> Some("user_cancel")]
    ELSE IF platform = "throwError" THEN [success |-> FALSE, error |-> Some("native failure")]
    ELSE IF platform = "throwEmptyError" THEN [success |-> FALSE, error |-> Some("")]
    ELSE [success |-> FALSE, error |-> Some("Unknown authentication error")]

\* authenticate when its own availability check says no
notAvailableResult ==
    [success |-> FALSE,
     error |-> Some("Biometric authentication is not available on this device")]

biometricAuthenticateUnchecked(hw, enrolled, threw, platform) ==
    [challenged |-> TRUE, result |-> authenticate(platform)]

\* biometricService.authenticate as a whole, lines 48-83: the AuthResult it
\* resolves to, and whether LocalAuthentication.authenticateAsync was called
biometricAuthenticate(hw, enrolled, threw, platform) ==
    IF isBiometricAvailable(hw, enrolled, threw)
    THEN [challenged |-> TRUE, result |-> authenticate(platform)]
    ELSE [challenged |-> FALSE, result |-> notAvailableResult]

\* ---------------------------------------------------------------- useAuth
\* getBiometricStatus
getBiometricStatus(types, notEnrolled) ==
    [hasHardware |-> Len(types) > 0, isEnrolled |-> ~notEnrolled]

\* generateAlertConfig: the dialog's title and the labels of its buttons
generateAlertConfig(status) ==
    IF ~status.hasHardware
    THEN [title |-> "Biometric Not Available", buttons |-> {Cancel, Continue}]
    ELSE IF ~status.isEnrolled
    THEN [title |-> "Not Set Up", buttons |-> {Cancel, OpenSettings}]
    ELSE [title |-> "Enable", buttons |-> {Cancel, OpenSettings}]

branchOnCached(available, cached) == cached

\* line 248: the branch of authenticateAndExecute, taken on the value the
\* availability check has just returned (cached: the hook's isAvailable)
branchAvailable(available, cached) == available

\* ------------------------------------------------------------- input sets
AuthTypes == {FINGERPRINT, FACIAL_RECOGNITION, IRIS}

\* every array of authentication types of up to MaxTypes entries
AllTypeLists == UNION { [1..n -> AuthTypes] : n \in 0..MaxTypes }

\* what LocalAuthentication.authenticateAsync can do
ChallengeOutcomes ==
    {"success", "fail", "failWithError", "throw", "throwError", "throwEmptyError"}

NoOp == [kind |-> "none"]

\* every id an item can have, and some no item has
IdInputs == (0..MaxTime) \X (1..MaxRand)

\* the ids the facade is called with: the stored item's and a created item's
FacadeIds == {<<0, 1>>, <<1, 1>>}

\* the ids the callbacks of the context are called with
StoreIds == FacadeIds \cup {<<1, 2>>}

AddInputs ==
    { [title |-> <<>>, description |-> None],
      [title |-> <<Space>>, description |-> None],
      [title |-> <<Space, "a">>, description |-> Some(<<"a", Space>>)] }

UpdateInputs == { [title |-> <<>>] }

\* the inputs of three creates made one after the other: A, then B, then C
CreateSequence ==
    << [title |-> <<"a">>, description |-> Some(<<Space, "x">>)],
       [title |-> <<"b", Space>>, description |-> None],
       [title |-> <<"c">>, description |-> None] >>

\* an item that an earlier run of the app saved
StoredTodo ==
    [id |-> <<0, 1>>, title |-> <<"a">>, description |-> None,
     completed |-> FALSE, createdAt |-> 0, updatedAt |-> 0]

\* what the todo key of the storage holds at launch
StoredBlobs == {Absent, Corrupt, stringify(<<StoredTodo>>)}

\* ------------------------------------------------------ call observations
NewCall ==
    [stable |-> TRUE,           \* the device configuration did not change meanwhile
     cached |-> isAvailable,    \* isAvailable as the callback's closure holds it
     confirmed |-> FALSE,       \* the delete confirmation was accepted
     checks |-> 0,              \* availability checks by authenticateAndExecute
     available |-> FALSE,       \* what the availability check returned
     availThrew |-> FALSE,      \* a platform query raised during that check
     challenges |-> 0,          \* platform challenges issued
     challenge |-> "none",      \* what the platform challenge did
     offered |-> {},            \* buttons of the unavailable dialog
     choice |-> "none",         \* the button the user pressed in it
     settingsThrew |-> FALSE,   \* opening the settings raised
     opCount |-> 0,             \* invocations of the wrapped operation
     opThrew |-> FALSE,         \* the wrapped operation raised
     outcome |-> "NONE",        \* terminal outcome of the gate
     notice |-> "none"]         \* the notice shown to the user

InFlight == pc \notin {"idle", "done"}


\* --------------------------------------------------------------- TodoProvider
\* some item has this id
Present(id) == \E i \in 1..Len(state.todos) : state.todos[i].id = id

\* addTodo(input): the state after its dispatch; rnd is Math.random()
addTodo(input, rnd) ==
    todoReducer(state, [type |-> "ADD_TODO",
                        payload |-> newTodo(input, now, rnd, now, now)], now)

updateTodoOnRestored(id, updates) ==
    todoReducer([state EXCEPT !.todos = <<StoredTodo>>],
                [type |-> "UPDATE_TODO",
                 payload |-> [id |-> id, updates |-> updates]], now)

\* updateTodo(id, updates)
updateTodo(id, updates) ==
    todoReducer(state, [type |-> "UPDATE_TODO",
                        payload |-> [id |-> id, updates |-> updates]], now)

\* deleteTodo(id)
deleteTodo(id) ==
    todoReducer(state, [type |-> "DELETE_TODO", payload |-> id], now)

\* toggleTodo(id)
toggleTodo(id) ==
    todoReducer(state, [type |-> "TOGGLE_TODO", payload |-> id], now)

\* operation(): what invoking the wrapped operation o can do -- the store
\* after it, whether it raised, and the value it returned
Operation(o) ==
    CASE o.kind = "add" ->
            { [state |-> addTodo(o.input, rnd), threw |-> FALSE, value |-> Undefined,
               dispatched |-> TRUE] : rnd \in 1..MaxRand }
      [] o.kind = "update" ->
            { [state |-> updateTodo(o.id, o.updates), threw |-> FALSE, value |-> Undefined,
               dispatched |-> TRUE] }
      [] o.kind = "delete" ->
            { [state |-> deleteTodo(o.id), threw |-> FALSE, value |-> Undefined,
               dispatched |-> TRUE] }
      [] o.kind = "caller" ->
            { [state |-> state, threw |-> o.throws,
               value |-> IF o.throws THEN Undefined ELSE OpResult,
               dispatched |-> FALSE] }

CompleteNewestFirst(st) ==
    [st EXCEPT !.todos = saveTodos(st.pending[Len(st.pending)], st.todos, st.failing).blob,
               !.pending = SubSeq(st.pending, 1, Len(st.pending) - 1)]

\* the oldest write in flight completes: AsyncStorage carries out the calls
\* made to it one after the other, in the order they were made; st is the
\* storage, st.pending the lists whose saveTodos call has not completed
Complete(st) ==
    [st EXCEPT !.todos = saveTodos(Head(st.pending), st.todos, st.failing).blob,
               !.pending = Tail(st.pending)]

\* at most st.lag writes stay in flight: the oldest ones complete first
RECURSIVE Settle(_)
Settle(st) == IF Len(st.pending) > st.lag THEN Settle(Complete(st)) ELSE st

\* saveTodos() of the provider is called with these todos: the write is issued
Issue(st, todos) == Settle([st EXCEPT !.pending = Append(st.pending, todos)])

SaveEffectWhileLoading(s) ==
    /\ saved' = Some(s.todos)
    /\ storage' = Issue(storage, s.todos)

\* lines 134-150: the effect that runs after a dispatch has been rendered
\* (every dispatch of the provider yields a new todos array or a new loading
\* flag, so its dependencies have changed); s is the state rendered.  The
\* catch of saveTodos keeps a failed write from going any further.
SaveEffect(s) ==
    IF ~s.loading
    THEN /\ saved' = Some(s.todos)
         /\ storage' = Issue(storage, s.todos)
    ELSE UNCHANGED <<saved, storage>>

\* a write in flight completes
WriteCompletes ==
    /\ pc # "done"
    /\ storage.pending # <<>>
    /\ storage' = Complete(storage)
    /\ UNCHANGED <<storeVars, saved, deviceVars, app, hookVars, callVars>>

\* the effects after the wrapped operation e has run
AfterOperation(e) ==
    IF e.dispatched THEN SaveEffect(e.state) ELSE UNCHANGED <<saved, storage>>

\* the millisecond clock advances
Tick ==
    /\ pc # "done"
    /\ now < MaxTime
    /\ now' = now + 1
    /\ UNCHANGED <<state, diskVars, deviceVars, app, hookVars, callVars>>

\* a catch block around the awaited operation: a raised exception becomes undefined
settleNoCatch(e) == IF e.threw THEN "rejected" ELSE e.value

settle(e) == IF e.threw THEN Undefined ELSE e.value

\* what the operation returns to the gate when it does not raise
Returns(o) == IF o.kind = "caller" THEN OpResult ELSE Undefined

\* loadTodos of the provider, lines 121-132: the restore completes and
\* dispatches SET_TODOS (SET_ERROR if storageService.loadTodos threw)
LoadTodos ==
    /\ pc # "done"
    /\ state.loading
    /\ LET todos == loadTodos(storage.todos, storage.failing)
       IN state' = IF todos.threw
                   THEN todoReducer(state, [type |-> "SET_ERROR",
                                            payload |-> "Failed to load todos"], now)
                   ELSE todoReducer(state, [type |-> "SET_TODOS",
                                            payload |-> todos.value], now)
    /\ SaveEffect(state')
    /\ UNCHANGED <<now, deviceVars, app, hookVars, callVars>>

\* the user changes the device's biometric configuration
DeviceChange ==
    /\ pc # "done"
    /\ \E hw \in BOOLEAN, enrolled \in BOOLEAN, types \in TypeLists :
          /\ <<hw, enrolled, types>> # <<hasHardware, isEnrolled, supportedTypes>>
          /\ hasHardware' = hw
          /\ isEnrolled' = enrolled
          /\ supportedTypes' = types
    /\ call' = IF InFlight THEN [call EXCEPT !.stable = FALSE] ELSE call
    /\ UNCHANGED <<storeVars, diskVars, app, hookVars, pc, op, buttons, result>>

\* ------------------------------------------------------------------ useAuth
\* checkAvailability
CheckAvailability ==
    /\ pc # "done"
    /\ \E threw \in BOOLEAN, typesThrew \in BOOLEAN :
          LET available == isBiometricAvailable(hasHardware, isEnrolled, threw)
              types == getSupportedAuthenticationTypes(supportedTypes, typesThrew)
          IN /\ isAvailable' = available
             /\ biometricType' = IF available THEN getBiometricTypeName(types)
                                 ELSE biometricType
    /\ UNCHANGED <<storeVars, diskVars, deviceVars, app, isAuthenticating, callVars>>

\* authenticateAndExecute(o) is called: setIsAuthenticating(true), then the
\* availability check is awaited
StartGate(o, observations) ==
    /\ pc' = "check"
    /\ op' = o
    /\ buttons' = {}
    /\ result' = Undefined
    /\ call' = observations
    /\ isAuthenticating' = TRUE
    /\ UNCHANGED <<storeVars, diskVars, deviceVars, app, isAvailable, biometricType>>

\* the call resolves to value r: the finally block runs
Resolve(r, observations) ==
    /\ pc' = "done"
    /\ buttons' = {}
    /\ result' = r
    /\ call' = observations
    /\ isAuthenticating' = FALSE

\* lines 236-252: the availability check returns
AvailabilityChecked ==
    /\ pc = "check"
    /\ \E threw \in BOOLEAN :
          LET available == isBiometricAvailable(hasHardware, isEnrolled, threw)
              changed == available # call.cached
          IN /\ isAvailable' = IF changed THEN available ELSE isAvailable
             /\ call' = [call EXCEPT !.checks = @ + 1, !.available = available,
                                     !.availThrew = threw]
             /\ IF branchAvailable(available, call.cached)
                THEN /\ pc' = IF changed /\ available THEN "typeName" ELSE "authenticate"
                     /\ UNCHANGED isAuthenticating
                ELSE /\ pc' = "status"
                     /\ isAuthenticating' = FALSE
    /\ UNCHANGED <<storeVars, diskVars, deviceVars, app, biometricType, op, buttons, result>>

\* lines 241-244: the type name arrives, setBiometricType
TypeNamed ==
    /\ pc = "typeName"
    /\ \E threw \in BOOLEAN :
          biometricType' =
              getBiometricTypeName(getSupportedAuthenticationTypes(supportedTypes, threw))
    /\ pc' = "authenticate"
    /\ UNCHANGED <<storeVars, diskVars, deviceVars, app, isAvailable, isAuthenticating,
                   op, buttons, result, call>>

\* lines 250-251 and handleBiometricNotAvailable up to Alert.alert: the type
\* name and the status arrive and the dialog is shown
DialogShown ==
    /\ pc = "status"
    /\ \E typesThrew \in BOOLEAN, enrolledThrew \in BOOLEAN :
          LET types == getSupportedAuthenticationTypes(supportedTypes, typesThrew)
              notEnrolled == hasBiometricHardwareButNotEnrolled(hasHardware, isEnrolled,
                                                                enrolledThrew)
              alertConfig == generateAlertConfig(getBiometricStatus(types, notEnrolled))
          IN /\ buttons' = alertConfig.buttons
             /\ call' = [call EXCEPT !.offered = alertConfig.buttons]
    /\ pc' = "dialog"
    /\ UNCHANGED <<storeVars, diskVars, deviceVars, app, hookVars, op, result>>

\* onCancel
PressCancel ==
    /\ pc = "dialog"
    /\ Cancel \in buttons
    /\ Resolve(Undefined, [call EXCEPT !.choice = Cancel, !.outcome = "CANCELLED"])
    /\ UNCHANGED <<storeVars, diskVars, deviceVars, app, isAvailable, biometricType, op>>

PressOpenSettingsUnresolved ==
    /\ pc = "dialog"
    /\ OpenSettings \in buttons
    /\ buttons' = {}
    /\ call' = [call EXCEPT !.choice = OpenSettings]
    /\ UNCHANGED <<storeVars, diskVars, deviceVars, app, hookVars, pc, op, result>>

\* onOpenSettings: openAppSettings is awaited
PressOpenSettings ==
    /\ pc = "dialog"
    /\ OpenSettings \in buttons
    /\ pc' = "settings"
    /\ buttons' = {}
    /\ call' = [call EXCEPT !.choice = OpenSettings, !.outcome = "SETTINGS_OPENED"]
    /\ UNCHANGED <<storeVars, diskVars, deviceVars, app, hookVars, op, result>>

\* openAppSettings returns or raises; finally resolve(undefined)
SettingsDone ==
    /\ pc = "settings"
    /\ \E threw \in BOOLEAN :
          Resolve(Undefined,
                  [call EXCEPT !.settingsThrew = threw,
                               !.notice = IF threw THEN "Unable to open settings" ELSE @])
    /\ UNCHANGED <<storeVars, diskVars, deviceVars, app, isAvailable, biometricType, op>>

PressContinueSkipsOperation ==
    /\ pc = "dialog"
    /\ Continue \in buttons
    /\ Resolve(Undefined, [call EXCEPT !.choice = Continue, !.outcome = "CONTINUED"])
    /\ UNCHANGED <<storeVars, diskVars, deviceVars, app, isAvailable, biometricType, op>>

\* onContinueWithoutAuth: executeOperationWithoutAuth(operation)
PressContinue ==
    /\ pc = "dialog"
    /\ Continue \in buttons
    /\ \E e \in Operation(op) :
          /\ state' = e.state
          /\ AfterOperation(e)
          /\ Resolve(settle(e),
                     [call EXCEPT !.choice = Continue, !.outcome = "CONTINUED",
                                  !.opCount = @ + 1, !.opThrew = e.threw,
                                  !.notice = IF e.threw THEN "Failed to complete operation"
                                             ELSE @])
    /\ UNCHANGED <<now, deviceVars, app, isAvailable, biometricType, op>>

\* biometricService.authenticate, lines 51-61 of the service: its own
\* availability check; the platform challenge is shown if it says yes
ChallengeShown ==
    /\ pc = "authenticate"
    /\ \E threw \in BOOLEAN :
          IF isBiometricAvailable(hasHardware, isEnrolled, threw)
          THEN /\ pc' = "challenge"
               /\ call' = [call EXCEPT !.challenges = @ + 1]
               /\ UNCHANGED <<buttons, result, isAuthenticating>>
          ELSE /\ ~notAvailableResult.success
               /\ Resolve(Undefined,
                          [call EXCEPT !.outcome = "FAILED",
                                       !.notice = "Authentication Failed"])
    /\ UNCHANGED <<storeVars, diskVars, deviceVars, app, isAvailable, biometricType, op>>

\* the platform challenge ends; lines 257-275
ChallengeDone ==
    /\ pc = "challenge"
    /\ \E platform \in {"success", "fail", "throw"} :
          IF authenticate(platform).success
          THEN \E e \in Operation(op) :
                  /\ state' = e.state
                  /\ AfterOperation(e)
                  /\ Resolve(settle(e),
                             [call EXCEPT !.challenge = platform, !.outcome = "SUCCEEDED",
                                          !.opCount = @ + 1, !.opThrew = e.threw,
                                          !.notice = IF e.threw
                                                     THEN "An error occurred during authentication"
                                                     ELSE @])
          ELSE /\ Resolve(Undefined,
                          [call EXCEPT !.challenge = platform, !.outcome = "FAILED",
                                       !.notice = "Authentication Failed"])
               /\ UNCHANGED <<state, saved, storage>>
    /\ UNCHANGED <<now, deviceVars, app, isAvailable, biometricType, op>>


\* ----------------------------------------------------------------- useTodos
\* a new request may be made when no gated call is pending
Ready == pc = "idle"

\* the handler that awaited the call returns to the user interface
Return ==
    /\ pc = "done"
    /\ pc' = "idle"
    /\ op' = NoOp
    /\ call' = NewCall
    /\ result' = Undefined
    /\ UNCHANGED <<storeVars, diskVars, deviceVars, app, hookVars, buttons>>

titleAcceptedUntrimmed(input) == input.title # <<>>

\* handleAddTodo, line 27: the title passes the check
titleAccepted(input) == trim(input.title) # <<>>

\* handleAddTodo(input)
HandleAddTodo(input) ==
    /\ Ready
    /\ IF titleAccepted(input)
       THEN StartGate([kind |-> "add", input |-> input], NewCall)
       ELSE /\ pc' = "done"
            /\ op' = [kind |-> "add", input |-> input]
            /\ buttons' = {}
            /\ result' = Undefined
            /\ call' = [NewCall EXCEPT !.notice = "Invalid Input"]
            /\ UNCHANGED <<storeVars, diskVars, deviceVars, app, hookVars>>

HandleUpdateTodoEager(id, updates) ==
    /\ Ready
    /\ state' = updateTodo(id, updates)
    /\ SaveEffect(state')
    /\ pc' = "check"
    /\ op' = [kind |-> "update", id |-> id, updates |-> updates]
    /\ buttons' = {}
    /\ result' = Undefined
    /\ call' = NewCall
    /\ isAuthenticating' = TRUE
    /\ UNCHANGED <<now, deviceVars, app, isAvailable, biometricType>>

\* handleUpdateTodo(id, updates)
HandleUpdateTodo(id, updates) ==
    /\ Ready
    /\ StartGate([kind |-> "update", id |-> id, updates |-> updates], NewCall)

\* handleDeleteTodo(id): the confirmation dialog is shown
HandleDeleteTodo(id) ==
    /\ Ready
    /\ pc' = "confirm"
    /\ op' = [kind |-> "delete", id |-> id]
    /\ buttons' = {Cancel, Delete}
    /\ result' = Undefined
    /\ call' = NewCall
    /\ UNCHANGED <<storeVars, diskVars, deviceVars, app, hookVars>>

startsGateAlways(button) == TRUE

\* the button of the confirmation dialog that has an onPress
startsGate(button) == button = Delete

\* the user answers the confirmation dialog
ConfirmPress(button) ==
    /\ pc = "confirm"
    /\ button \in buttons
    /\ IF startsGate(button)
       THEN StartGate(op, [call EXCEPT !.confirmed = (button = Delete),
                                       !.cached = isAvailable])
       ELSE /\ pc' = "idle"
            /\ op' = NoOp
            /\ buttons' = {}
            /\ UNCHANGED <<storeVars, diskVars, deviceVars, app, hookVars, result, call>>

HandleToggleTodoChecking(id) ==
    /\ pc # "done"
    /\ state' = toggleTodo(id)
    /\ SaveEffect(state')
    /\ isAvailable' = isBiometricAvailable(hasHardware, isEnrolled, FALSE)
    /\ UNCHANGED <<now, deviceVars, app, isAuthenticating, biometricType, callVars>>

\* handleToggleTodo(id)
HandleToggleTodo(id) ==
    /\ pc # "done"
    /\ state' = toggleTodo(id)
    /\ SaveEffect(state')
    /\ UNCHANGED <<now, deviceVars, app, hookVars, callVars>>

\* a consumer of the context calls one of its callbacks, lines 156-192
Invoke(o) ==
    /\ Ready
    /\ \E e \in Operation(o) :
          /\ state' = e.state
          /\ AfterOperation(e)
    /\ UNCHANGED <<now, deviceVars, app, hookVars, callVars>>

\* addTodo(input) of the context
CallAddTodo(input) == Invoke([kind |-> "add", input |-> input])

\* updateTodo(id, updates) of the context
CallUpdateTodo(id, updates) == Invoke([kind |-> "update", id |-> id, updates |-> updates])

\* deleteTodo(id) of the context
CallDeleteTodo(id) == Invoke([kind |-> "delete", id |-> id])

\* authenticateAndExecute called with an operation of the caller's own
CallerGate(throws) ==
    /\ Ready
    /\ StartGate([kind |-> "caller", throws |-> throws], NewCall)

\* ---------------------------------------------------------------------- App
\* the App component when it is first rendered: initializeApp is called
AppLaunched ==
    [pc |-> "firstLaunch", isInitializing |-> TRUE, isAuthenticated |-> FALSE,
     isFirstLaunch |-> FALSE, dialog |-> {}, handler |-> "none", launch |-> 1]

\* the App component once initializeApp has finished and let the user in:
\* the TodoProvider and the screen are mounted
AppMounted ==
    [pc |-> "settled", isInitializing |-> FALSE, isAuthenticated |-> TRUE,
     isFirstLaunch |-> FALSE, dialog |-> {}, handler |-> "none", launch |-> 1]

\* AsyncStorage starts or stops rejecting its calls
StorageFault ==
    /\ pc # "done"
    /\ storage' = [storage EXCEPT !.failing = ~@]
    /\ UNCHANGED <<storeVars, saved, deviceVars, app, hookVars, callVars>>

\* the app is closed and launched again: the components start from their
\* initial state, the storage keeps what it holds
AppRelaunch ==
    /\ app.pc # "firstLaunch"
    /\ app.launch < MaxLaunches
    /\ app' = [AppLaunched EXCEPT !.launch = app.launch + 1]
    /\ state' = initialState
    /\ saved' = None
    /\ UNCHANGED <<now, storage, deviceVars, hookVars, callVars>>

\* initializeApp, line 205: isFirstLaunch is awaited
AppFirstLaunchRead ==
    /\ app.pc = "firstLaunch"
    /\ app' = [app EXCEPT !.pc = "setupComplete",
                          !.isFirstLaunch = isFirstLaunch(storage.hasLaunched,
                                                          storage.failing)]
    /\ UNCHANGED <<storeVars, diskVars, deviceVars, hookVars, callVars>>

\* the end of handleFirstTimeBiometricSetup as initializeApp sees it: lines
\* 214-222 follow
AfterSetup(a) ==
    IF a.isFirstLaunch THEN [a EXCEPT !.pc = "hasLaunched"]
    ELSE [a EXCEPT !.pc = "settled", !.isInitializing = FALSE]

\* initializeApp, lines 206-212: isBiometricSetupComplete is awaited
AppSetupCompleteRead ==
    /\ app.pc = "setupComplete"
    /\ LET isSetupComplete == isBiometricSetupComplete(storage.biometricSetup,
                                                       storage.failing)
       IN app' = IF app.isFirstLaunch \/ ~isSetupComplete
                 THEN [app EXCEPT !.pc = "available"]
                 ELSE AfterSetup([app EXCEPT !.isAuthenticated = TRUE])
    /\ UNCHANGED <<storeVars, diskVars, deviceVars, hookVars, callVars>>

\* handleFirstTimeBiometricSetup, lines 125-142: the availability arrives;
\* if it is false the one-button dialog is shown and the function returns
AppAvailabilityChecked ==
    /\ app.pc = "available"
    /\ \E threw \in BOOLEAN :
          app' = IF isBiometricAvailable(hasHardware, isEnrolled, threw)
                 THEN [app EXCEPT !.pc = "typeName"]
                 ELSE AfterSetup([app EXCEPT !.dialog = {"OK"}])
    /\ UNCHANGED <<storeVars, diskVars, deviceVars, hookVars, callVars>>

\* handleFirstTimeBiometricSetup, lines 145-194: the type name arrives, the
\* dialog with Skip and Authenticate is shown and the function returns
AppTypeNamed ==
    /\ app.pc = "typeName"
    /\ app' = AfterSetup([app EXCEPT !.dialog = {"Skip", "Authenticate"}])
    /\ UNCHANGED <<storeVars, diskVars, deviceVars, hookVars, callVars>>

\* initializeApp, lines 214-222: setHasLaunched is awaited; catch, finally
AppHasLaunchedSet ==
    /\ app.pc = "hasLaunched"
    /\ LET w == setHasLaunched(storage.hasLaunched, storage.failing)
       IN /\ storage' = [storage EXCEPT !.hasLaunched = w.flag]
          /\ app' = [app EXCEPT !.pc = "settled", !.isInitializing = FALSE,
                                !.isAuthenticated = IF w.threw THEN TRUE ELSE @]
    /\ UNCHANGED <<storeVars, saved, deviceVars, hookVars, callVars>>

\* lines 135-136 (also 156-157, 169-170, 184-185): after the awaited
\* setBiometricSetupComplete, setIsAuthenticated(true); a write that threw
\* ends the handler before it
letIn(a, threw) == IF threw THEN a ELSE [a EXCEPT !.isAuthenticated = TRUE]

\* onPress of OK or of Skip: lines 134-137, 155-158, 183-186
AppPressDismiss(button) ==
    /\ button \in app.dialog \cap {"OK", "Skip"}
    /\ LET w == setBiometricSetupComplete(storage.biometricSetup, storage.failing)
       IN /\ storage' = [storage EXCEPT !.biometricSetup = w.flag]
          /\ app' = letIn([app EXCEPT !.dialog = {}], w.threw)
    /\ UNCHANGED <<storeVars, saved, deviceVars, hookVars, callVars>>

\* onPress of Authenticate, line 163: biometricService.authenticate is awaited
AppPressAuthenticate ==
    /\ "Authenticate" \in app.dialog
    /\ app' = [app EXCEPT !.dialog = {}, !.handler = "authenticate"]
    /\ UNCHANGED <<storeVars, diskVars, deviceVars, hookVars, callVars>>

\* lines 167-190: the AuthResult arrives
AppAuthenticated ==
    /\ app.handler = "authenticate"
    /\ \E threw \in BOOLEAN, platform \in {"success", "fail", "throw"} :
          LET r == IF isBiometricAvailable(hasHardware, isEnrolled, threw)
                   THEN authenticate(platform) ELSE notAvailableResult
              w == setBiometricSetupComplete(storage.biometricSetup, storage.failing)
          IN IF r.success
             THEN /\ storage' = [storage EXCEPT !.biometricSetup = w.flag]
                  /\ app' = letIn([app EXCEPT !.handler = "none"], w.threw)
             ELSE /\ app' = [app EXCEPT !.handler = "none", !.dialog = {"OK"}]
                  /\ UNCHANGED storage
    /\ UNCHANGED <<storeVars, saved, deviceVars, hookVars, callVars>>

\* line 230: the todo list is rendered, not the initializing screen
Mounted == ~app.isInitializing /\ app.isAuthenticated

\* ------------------------------------------------------------ specification

\* the gate and the facade of a mounted screen, on a storage whose calls succeed
Init ==
    /\ state = initialState
    /\ now = 1
    /\ hasHardware \in BOOLEAN
    /\ isEnrolled \in BOOLEAN
    /\ supportedTypes \in TypeLists
    /\ isAvailable = FALSE
    /\ isAuthenticating = FALSE
    /\ biometricType = "Biometric"
    /\ pc = "idle"
    /\ op = NoOp
    /\ buttons = {}
    /\ result = Undefined
    /\ call = NewCall
    /\ saved = None
    /\ storage \in [todos : {stringify(<<StoredTodo>>)}, hasLaunched : {"true"},
                     biometricSetup : {"true"}, failing : {FALSE},
                     pending : {<<>>}, lag : {0}]
    /\ app = AppMounted

Next ==
    \/ LoadTodos
    \/ DeviceChange
    \/ CheckAvailability
    \/ \E input \in AddInputs : Len(state.todos) < MaxTodos /\ HandleAddTodo(input)
    \/ \E id \in FacadeIds, updates \in UpdateInputs : HandleUpdateTodo(id, updates)
    \/ \E id \in FacadeIds : HandleDeleteTodo(id)
    \/ \E button \in {Cancel, Delete} : ConfirmPress(button)
    \/ \E id \in FacadeIds : HandleToggleTodo(id)
    \/ \E throws \in BOOLEAN : CallerGate(throws)
    \/ AvailabilityChecked
    \/ TypeNamed
    \/ DialogShown
    \/ PressCancel
    \/ PressOpenSettings
    \/ SettingsDone
    \/ PressContinue
    \/ ChallengeShown
    \/ ChallengeDone
    \/ Return

Spec == Init /\ [][Next]_vars

\* the collaborators return: every awaited call of the gate completes
CollaboratorsReturn ==
    \/ AvailabilityChecked
    \/ TypeNamed
    \/ DialogShown
    \/ SettingsDone
    \/ ChallengeShown
    \/ ChallengeDone

\* the user answers the dialog of the gate
UserAnswers ==
    \/ PressCancel
    \/ PressOpenSettings
    \/ PressContinue

\* the gated calls of every caller, without the ungated toggle
NextGate ==
    \/ LoadTodos
    \/ DeviceChange
    \/ CheckAvailability
    \/ \E input \in AddInputs : Len(state.todos) < MaxTodos /\ HandleAddTodo(input)
    \/ \E id \in FacadeIds, updates \in UpdateInputs : HandleUpdateTodo(id, updates)
    \/ \E id \in FacadeIds : HandleDeleteTodo(id)
    \/ \E button \in {Cancel, Delete} : ConfirmPress(button)
    \/ \E throws \in BOOLEAN : CallerGate(throws)
    \/ CollaboratorsReturn
    \/ UserAnswers
    \/ Return

SpecGateLive ==
    /\ Init
    /\ [][NextGate]_vars
    /\ WF_vars(CollaboratorsReturn)
    /\ WF_vars(UserAnswers)

\* the Todo Store alone: the restore, the callbacks of the context called
\* directly, and the clock, on a storage whose calls succeed
InitStore ==
    /\ state = initialState
    /\ now = 1
    /\ hasHardware = TRUE
    /\ isEnrolled = TRUE
    /\ supportedTypes = <<>>
    /\ isAvailable = FALSE
    /\ isAuthenticating = FALSE
    /\ biometricType = "Biometric"
    /\ pc = "idle"
    /\ op = NoOp
    /\ buttons = {}
    /\ result = Undefined
    /\ call = NewCall
    /\ saved = None
    /\ storage \in [todos : StoredBlobs, hasLaunched : {"true"},
                     biometricSetup : {"true"}, failing : {FALSE},
                     pending : {<<>>}, lag : {0}]
    /\ app = AppMounted

NextStore ==
    \/ LoadTodos
    \/ Tick
    \/ Len(state.todos) <= MaxTodos + 1 /\ CallAddTodo(CreateSequence[1])
    \/ \E id \in StoreIds, updates \in UpdateInputs : CallUpdateTodo(id, updates)
    \/ \E id \in StoreIds : CallDeleteTodo(id)
    \/ \E id \in StoreIds : HandleToggleTodo(id)

SpecStore == InitStore /\ [][NextStore]_vars

\* creates and removes alone: A, then B, then C
NextCreate ==
    \/ LoadTodos
    \/ Tick
    \/ \E n \in 1..Len(CreateSequence) :
          Len(state.todos) = n - 1 /\ CallAddTodo(CreateSequence[n])
    \/ \E id \in StoreIds : CallDeleteTodo(id)

SpecCreate == InitStore /\ [][NextCreate]_vars

\* the launch of the app: initializeApp, the onboarding dialog, and the
\* mounted todo list, on a storage that may start or stop rejecting calls
InitApp ==
    /\ state = initialState
    /\ now = 1
    /\ hasHardware \in BOOLEAN
    /\ isEnrolled \in BOOLEAN
    /\ supportedTypes = <<>>
    /\ isAvailable = FALSE
    /\ isAuthenticating = FALSE
    /\ biometricType = "Biometric"
    /\ pc = "idle"
    /\ op = NoOp
    /\ buttons = {}
    /\ result = Undefined
    /\ call = NewCall
    /\ saved = None
    /\ storage \in [todos : StoredBlobs, hasLaunched : {Null, "true"},
                     biometricSetup : {Null, "true"}, failing : BOOLEAN,
                     pending : {<<>>}, lag : {0}]
    /\ app = AppLaunched

NextApp ==
    \/ StorageFault
    \/ AppRelaunch
    \/ AppFirstLaunchRead
    \/ AppSetupCompleteRead
    \/ AppAvailabilityChecked
    \/ AppTypeNamed
    \/ AppHasLaunchedSet
    \/ \E button \in {"OK", "Skip"} : AppPressDismiss(button)
    \/ AppPressAuthenticate
    \/ AppAuthenticated
    \/ Mounted /\ LoadTodos
    \/ Mounted /\ \E id \in FacadeIds : HandleToggleTodo(id)

SpecApp == InitApp /\ [][NextApp]_vars

\* the reducer alone, as its unit tests drive it: any action on any state
LoadError == "Failed to load todos"

\* dispatch(action): the state becomes what todoReducer returns
Dispatch(action) ==
    /\ state' = todoReducer(state, action, now)
    /\ UNCHANGED <<now, diskVars, deviceVars, app, hookVars, callVars>>

\* the four mutation actions
AddAction(rnd) ==
    [type |-> "ADD_TODO", payload |-> newTodo(CreateSequence[1], now, rnd, now, now)]

UpdateAction(id, updates) ==
    [type |-> "UPDATE_TODO", payload |-> [id |-> id, updates |-> updates]]

DeleteAction(id) == [type |-> "DELETE_TODO", payload |-> id]

ToggleAction(id) == [type |-> "TOGGLE_TODO", payload |-> id]

InitReducer ==
    /\ state \in [todos : {<<>>, <<StoredTodo>>}, loading : BOOLEAN,
                   error : {Null, LoadError}]
    /\ now = 1
    /\ hasHardware = TRUE
    /\ isEnrolled = TRUE
    /\ supportedTypes = <<>>
    /\ isAvailable = FALSE
    /\ isAuthenticating = FALSE
    /\ biometricType = "Biometric"
    /\ pc = "idle"
    /\ op = NoOp
    /\ buttons = {}
    /\ result = Undefined
    /\ call = NewCall
    /\ saved = None
    /\ storage \in [todos : {Absent}, hasLaunched : {"true"},
                     biometricSetup : {"true"}, failing : {FALSE},
                     pending : {<<>>}, lag : {0}]
    /\ app = AppMounted

NextReducer ==
    \/ Tick
    \/ \E rnd \in 1..MaxRand : Len(state.todos) <= MaxTodos /\ Dispatch(AddAction(rnd))
    \/ \E id \in StoreIds, updates \in UpdateInputs : Dispatch(UpdateAction(id, updates))
    \/ \E id \in StoreIds : Dispatch(DeleteAction(id))
    \/ \E id \in StoreIds : Dispatch(ToggleAction(id))
    \/ \E loading \in BOOLEAN : Dispatch([type |-> "SET_LOADING", payload |-> loading])
    \/ \E error \in {Null, LoadError} : Dispatch([type |-> "SET_ERROR", payload |-> error])
    \/ \E todos \in {<<>>, <<StoredTodo>>} : Dispatch([type |-> "SET_TODOS", payload |-> todos])

SpecReducer == InitReducer /\ [][NextReducer]_vars

\* the biometric service alone, called directly on any device
ServiceTypeName(threw) ==
    /\ biometricType' =
           getBiometricTypeName(getSupportedAuthenticationTypes(supportedTypes, threw))
    /\ UNCHANGED <<storeVars, diskVars, deviceVars, app, isAvailable, isAuthenticating,
                   callVars>>

\* biometricService.authenticate is called and resolves
ServiceAuthenticate(threw, platform) ==
    /\ LET r == biometricAuthenticate(hasHardware, isEnrolled, threw, platform)
       IN /\ result' = r.result
          /\ call' = [NewCall EXCEPT
                          !.checks = 1,
                          !.available = isBiometricAvailable(hasHardware, isEnrolled, threw),
                          !.availThrew = threw,
                          !.challenges = IF r.challenged THEN 1 ELSE 0,
                          !.challenge = IF r.challenged THEN platform ELSE "none"]
    /\ UNCHANGED <<storeVars, diskVars, deviceVars, app, hookVars, pc, op, buttons>>

\* no authenticate call has resolved yet
NoResult == [kind |-> "none"]

InitService ==
    /\ state = initialState
    /\ now = 1
    /\ hasHardware \in BOOLEAN
    /\ isEnrolled \in BOOLEAN
    /\ supportedTypes \in AllTypeLists
    /\ isAvailable = FALSE
    /\ isAuthenticating = FALSE
    /\ biometricType = "Biometric"
    /\ pc = "idle"
    /\ op = NoOp
    /\ buttons = {}
    /\ result = NoResult
    /\ call = NewCall
    /\ saved = None
    /\ storage \in [todos : {Absent}, hasLaunched : {"true"},
                     biometricSetup : {"true"}, failing : {FALSE},
                     pending : {<<>>}, lag : {0}]
    /\ app = AppMounted

NextService ==
    \/ \E threw \in BOOLEAN : ServiceTypeName(threw)
    \/ \E threw \in BOOLEAN, platform \in ChallengeOutcomes :
          ServiceAuthenticate(threw, platform)

SpecService == InitService /\ [][NextService]_vars

\* the provider on a storage that lets up to MaxInFlight writes wait
InitWrites ==
    /\ state = initialState
    /\ now = 1
    /\ hasHardware = TRUE
    /\ isEnrolled = TRUE
    /\ supportedTypes = <<>>
    /\ isAvailable = FALSE
    /\ isAuthenticating = FALSE
    /\ biometricType = "Biometric"
    /\ pc = "idle"
    /\ op = NoOp
    /\ buttons = {}
    /\ result = Undefined
    /\ call = NewCall
    /\ saved = None
    /\ storage \in [todos : {Absent, stringify(<<StoredTodo>>)}, hasLaunched : {"true"},
                     biometricSetup : {"true"}, failing : {FALSE},
                     pending : {<<>>}, lag : {MaxInFlight}]
    /\ app = AppMounted

NextWrites ==
    \/ LoadTodos
    \/ Tick
    \/ WriteCompletes
    \/ Len(state.todos) <= MaxTodos /\ CallAddTodo(CreateSequence[1])
    \/ \E id \in FacadeIds : HandleToggleTodo(id)

SpecWrites == InitWrites /\ [][NextWrites]_vars

TypeOK ==
    /\ Len(state.todos) <= MaxTodos + Len(CreateSequence)
    /\ now \in 1..MaxTime
    /\ pc \in {"idle", "confirm", "check", "typeName", "status", "dialog", "settings",
               "authenticate", "challenge", "done"}
    /\ result \in {Undefined, OpResult}
    /\ call.outcome \in Outcomes \cup {"NONE"}


\* ------------------------------------------------------------------ claims
Favourable == {"SUCCEEDED", "CONTINUED"}

\* the call took the branch for available biometrics
OnAuthPath ==
    \/ pc \in {"typeName", "authenticate", "challenge"}
    \/ pc = "done" /\ call.outcome \in {"SUCCEEDED", "FAILED"}

\* the call took the branch for unavailable biometrics
OnUnavailablePath ==
    \/ pc \in {"status", "dialog", "settings"}
    \/ pc = "done" /\ call.outcome \in {"CANCELLED", "SETTINGS_OPENED", "CONTINUED"}

\* C1: in a call whose availability check returned true, a successful
\* challenge invokes the operation exactly once and the call returns what the
\* operation returned; a failed challenge never invokes it and the call
\* resolves to undefined.
C1_ChallengeDecides ==
    (pc = "done" /\ call.checks = 1 /\ call.available) =>
        /\ call.challenge = "success" =>
              /\ call.opCount = 1
              /\ ~call.opThrew => result = Returns(op)
        /\ call.challenge = "fail" =>
              /\ call.opCount = 0
              /\ result = Undefined

C1_Witness ==
    /\ pc = "done"
    /\ call.available
    /\ call.challenge = "success"
    /\ op.kind = "caller"
    /\ call.opCount = 1
    /\ result = OpResult

\* C2: a step of a request made through the facade changes the items only if
\* it ends the gate in SUCCEEDED or CONTINUED; every other step of the request
\* (the request itself, the checks, the dialogs, an ending in FAILED, CANCELLED
\* or SETTINGS_OPENED) leaves the items as they were.
C2_MutationOnlyAfterGate ==
    [][ (pc' # pc /\ state'.todos # state.todos) =>
            /\ pc' = "done"
            /\ op.kind \in {"add", "update", "delete"}
            /\ call'.outcome \in Favourable ]_vars

C2_Witness ==
    /\ pc = "done"
    /\ op.kind = "delete"
    /\ call.outcome = "FAILED"
    /\ Present(op.id)

\* C3: in a call during which the device has hardware and no enrollment, the
\* dialog offers exactly Cancel and Open Settings, the operation is never
\* invoked and the call resolves to undefined.
C3_NotEnrolledOffersSettings ==
    (call.checks = 1 /\ call.stable /\ hasHardware /\ ~isEnrolled
        /\ pc \in {"dialog", "settings", "done"}) =>
        /\ call.offered = {Cancel, OpenSettings}
        /\ call.opCount = 0
        /\ result = Undefined

\* C4: in a call during which the device has no hardware, Continue invokes
\* the operation once and the call returns what it returned; Cancel resolves
\* the call to undefined without invoking it.
C4_NoHardwareContinue ==
    (pc = "done" /\ call.checks = 1 /\ call.stable /\ ~hasHardware) =>
        /\ call.choice = Continue =>
              /\ call.opCount = 1
              /\ ~call.opThrew => result = Returns(op)
        /\ call.choice = Cancel =>
              /\ call.opCount = 0
              /\ result = Undefined

C4_Witness ==
    /\ pc = "done"
    /\ call.stable
    /\ ~hasHardware
    /\ call.choice = Continue
    /\ op.kind = "caller"
    /\ call.opCount = 1
    /\ result = OpResult

\* C5 as stated: whenever the availability check, the challenge or the
\* operation raised, the call resolves to undefined.
C5_AnyExceptionResolvesUndefined ==
    (pc = "done" /\ call.checks = 1
        /\ (call.availThrew \/ call.challenge = "throw" \/ call.opThrew)) =>
        result = Undefined

\* C5 (amended): the call never rejects; it resolves to undefined whenever
\* the challenge or the operation raised; a platform query that raises during
\* the availability check makes the check answer false, and the call then
\* resolves to undefined unless the user chooses Continue and the operation
\* returns.
C5_ExceptionsAreAbsorbed ==
    (pc = "done" /\ call.checks = 1) =>
        /\ result \in {Undefined, Returns(op)}
        /\ (call.challenge = "throw" \/ call.opThrew) => result = Undefined
        /\ call.availThrew =>
              /\ ~call.available
              /\ OnUnavailablePath
              /\ result # Undefined => (call.choice = Continue /\ ~call.opThrew)

C5_Witness ==
    /\ pc = "done"
    /\ call.choice = Continue
    /\ call.opThrew
    /\ result = Undefined

\* C6: for every id the facade is asked to toggle (present or absent), a
\* handleToggleTodo step leaves the gate alone: no availability check, no
\* challenge, no dialog, and the hook's state and the pending call are as
\* before.
C6_ToggleBypassesGate ==
    [][ (\E id \in FacadeIds : HandleToggleTodo(id)) =>
            UNCHANGED <<isAvailable, isAuthenticating, biometricType,
                        pc, op, buttons, result, call>> ]_vars

C6_Witness ==
    /\ pc = "challenge"
    /\ \E i \in 1..Len(state.todos) : state.todos[i].completed

\* C7: a create request whose title is empty after trimming ends at once:
\* no availability check, no challenge, no dialog, no store transition, the
\* state of the store and of the hook unchanged, and a validation notice.
C7_EmptyTitleRejected ==
    [][ (pc = "idle" /\ pc' # "idle" /\ op'.kind = "add"
            /\ trim(op'.input.title) = <<>>) =>
            /\ pc' = "done"
            /\ state' = state
            /\ UNCHANGED <<isAvailable, isAuthenticating, biometricType>>
            /\ buttons' = {}
            /\ call'.checks = 0
            /\ call'.challenges = 0
            /\ call'.opCount = 0
            /\ call'.notice = "Invalid Input" ]_vars

C7_Witness ==
    /\ pc = "done"
    /\ op.kind = "add"
    /\ op.input.title = <<Space>>
    /\ call.notice = "Invalid Input"
    /\ call.checks = 0

\* C8: a delete request only shows the confirmation; declining it ends the
\* request with no gate call and the items unchanged; the gate of a delete
\* starts only from an accepted confirmation; and the items change only at
\* a favourable ending of a confirmed delete.
C8_ConfirmationPrecedesGate ==
    [][ /\ (pc = "idle" /\ op'.kind = "delete") =>
                  (pc' = "confirm" /\ state' = state /\ call'.checks = 0)
        /\ (pc = "confirm" /\ pc' = "idle") =>
                  (state' = state /\ call'.checks = 0 /\ ~call'.confirmed)
        /\ (op'.kind = "delete" /\ pc # "check" /\ pc' = "check") =>
                  (pc = "confirm" /\ call'.confirmed)
        /\ (op.kind = "delete" /\ pc' # pc /\ state'.todos # state.todos) =>
                  (call'.confirmed /\ call'.outcome \in Favourable) ]_vars

C8_Witness ==
    /\ pc = "done"
    /\ op.kind = "delete"
    /\ call.confirmed
    /\ call.outcome = "SUCCEEDED"
    /\ call.opCount = 1
    /\ ~state.loading
    /\ ~Present(op.id)

\* C9: every call that got past its availability check made exactly one
\* check, and the branch it took is the one for what the device answered in
\* that check, whatever isAvailable held when the call was made.
C9_FreshAvailability ==
    /\ (OnAuthPath \/ OnUnavailablePath) => call.checks = 1
    /\ (call.checks = 1 /\ call.stable /\ ~call.availThrew) =>
          /\ OnAuthPath <=> (hasHardware /\ isEnrolled)
          /\ OnUnavailablePath <=> ~(hasHardware /\ isEnrolled)

C9_Witness ==
    /\ pc = "dialog"
    /\ call.cached
    /\ call.stable
    /\ ~call.availThrew
    /\ hasHardware
    /\ ~isEnrolled

\* C10: every call resolves, given that the collaborators return and the
\* user answers the dialog; a resolved call has exactly one of the five
\* outcomes, which is not replaced once set; and the operation is invoked at
\* most once, and only in a call that ends SUCCEEDED or CONTINUED.
C10_CallResolves ==
    /\ (pc = "check") ~> (pc = "done")
    /\ []((pc = "done" /\ call.checks = 1) => call.outcome \in Outcomes)
    /\ [](call.opCount <= 1)
    /\ [](call.opCount = 1 => (pc = "done" /\ call.outcome \in Favourable))
    /\ [][(call.outcome # "NONE" /\ pc' # "idle") => call'.outcome = call.outcome]_vars

C10_Witness ==
    /\ pc = "done"
    /\ call.outcome = "SETTINGS_OPENED"
    /\ call.settingsThrew
    /\ call.opCount = 0

\* a gated call is pending: authenticateAndExecute was invoked and has not
\* resolved
GatePending ==
    pc \in {"check", "typeName", "status", "dialog", "settings", "authenticate",
            "challenge"}

\* C11: isAuthenticating is true at every moment a gated call is pending,
\* the wait for the user's choice in the biometrics-unavailable dialog
\* included.
C11_AuthenticatingWhilePending == GatePending => isAuthenticating

\* the restore completes in this step
RestoreCompletes == state.loading /\ ~state'.loading

\* the storage read of this restore fails, or what it reads does not parse
ReadFails == storage.failing \/ storage.todos.kind = "corrupt"

\* C12: a restore whose read or parse fails leaves an empty items list,
\* loading = false and lastError set to a message.
C12_FailedRestoreSetsError ==
    [][ (RestoreCompletes /\ ReadFails) =>
            /\ state'.todos = <<>>
            /\ ~state'.loading
            /\ state'.error # Null ]_vars

\* C13: once the restore has completed every change of the items issues a
\* write that carries the items as they are after the change; a write is
\* issued in the step of its mutation, so in the order of the mutations, and
\* never carries an older collection; up to the end of the restore no write
\* is issued.
C13_WritesFollowChanges ==
    /\ [][ /\ (~state'.loading /\ state'.todos # state.todos) =>
                  (saved' # saved /\ saved' = Some(state'.todos))
           /\ saved' # saved => saved' = Some(state'.todos)
           /\ state'.loading => saved' = saved ]_vars
    /\ [](state.loading => saved = None)
    /\ [](~state.loading => saved = Some(state.todos))

C13_Witness ==
    /\ ~state.loading
    /\ Len(state.todos) = 2
    /\ state.todos[2].completed
    /\ saved = Some(state.todos)
    /\ storage.todos = stringify(state.todos)

\* initializeApp has finished, no onboarding dialog is open and no button
\* handler is running: nothing of the launch is left to happen
LaunchOver == app.pc = "settled" /\ app.dialog = {} /\ app.handler = "none"

\* C14: a failed storage write never blocks the user: once the launch is
\* over the app has left the initializing screen and shows the todo list,
\* whichever writes failed on the way.
C14_WriteFailureNeverBlocks == LaunchOver => Mounted

\* C15: a create puts the new item, with its trimmed title and not
\* completed, at the head of the list, and the items that were there follow
\* in the order they had; so A, then B, then C gives [C, B, A].
C15_CreatePrepends ==
    [][ \A n \in 1..Len(CreateSequence) :
            CallAddTodo(CreateSequence[n]) =>
                /\ Len(state'.todos) = Len(state.todos) + 1
                /\ state'.todos[1].title = trim(CreateSequence[n].title)
                /\ ~state'.todos[1].completed
                /\ \A i \in 1..Len(state.todos) :
                      state'.todos[i + 1] = state.todos[i] ]_vars

C15_Witness ==
    /\ Len(state.todos) = 3
    /\ state.todos[1].title = <<"c">>
    /\ state.todos[2].title = <<"b">>
    /\ state.todos[3].title = <<"a">>
    /\ state.todos[1].createdAt > state.todos[3].createdAt

\* C16: the ids of the items are pairwise distinct in every reachable state.
C16_DistinctIds ==
    \A i, j \in 1..Len(state.todos) :
        i # j => state.todos[i].id # state.todos[j].id

\* the positions of the items whose id is not id
Others(todos, id) == {i \in 1..Len(todos) : todos[i].id # id}

\* how many of them stand at or before position i
Rank(todos, id, i) == Cardinality({k \in Others(todos, id) : k <= i})

\* C17: update and toggle leave the list as long as it was and every item
\* with another id as it was; remove leaves exactly the items with another
\* id, each as it was and in the order they had; with an id that no item
\* has, each of the three leaves the items as they were.
C17_OnlyMatchingItem ==
    [][ \A id \in StoreIds :
          /\ ((\E updates \in UpdateInputs : CallUpdateTodo(id, updates))
                  \/ HandleToggleTodo(id)) =>
                /\ Len(state'.todos) = Len(state.todos)
                /\ \A i \in Others(state.todos, id) : state'.todos[i] = state.todos[i]
                /\ ~Present(id) => state'.todos = state.todos
          /\ CallDeleteTodo(id) =>
                /\ Len(state'.todos) = Cardinality(Others(state.todos, id))
                /\ \A i \in Others(state.todos, id) :
                      state'.todos[Rank(state.todos, id, i)] = state.todos[i]
                /\ ~Present(id) => state'.todos = state.todos ]_vars

C17_Witness ==
    /\ Len(state.todos) = 2
    /\ state.todos[1].id = <<1, 2>>
    /\ state.todos[2].id = <<0, 1>>
    /\ state.todos[1].createdAt < state.todos[1].updatedAt
    /\ state.todos[2] = StoredTodo
    /\ saved = Some(state.todos)

\* the store after TOGGLE_TODO for id is reduced at time t
Toggle(s, id, t) == todoReducer(s, [type |-> "TOGGLE_TODO", payload |-> id], t)

\* two items agree on every field but updatedAt
SameButUpdatedAt(a, b) == [a EXCEPT !.updatedAt = 0] = [b EXCEPT !.updatedAt = 0]

\* toggling an id twice, now and at a later reading of the clock, restores
\* completed and leaves every field but updatedAt as it was, for every item
TwoTogglesRestore ==
    \A id \in StoreIds, t1 \in now..MaxTime :
        \A t2 \in t1..MaxTime :
            LET twice == Toggle(Toggle(state, id, t1), id, t2)
            IN /\ Len(twice.todos) = Len(state.todos)
               /\ \A i \in 1..Len(state.todos) :
                     SameButUpdatedAt(twice.todos[i], state.todos[i])

\* C18 as stated: two toggles of an id restore completed and every field
\* but updatedAt, and updatedAt changes on each toggle.
C18_EachToggleChangesUpdatedAt ==
    /\ []TwoTogglesRestore
    /\ [][ \A id \in StoreIds : HandleToggleTodo(id) =>
              \A i \in 1..Len(state.todos) :
                  state.todos[i].id = id =>
                      state'.todos[i].updatedAt # state.todos[i].updatedAt ]_vars

\* C18 (amended): two toggles of an id restore completed and every field
\* but updatedAt; each toggle flips completed and sets updatedAt to the
\* reading of the clock at that toggle, which differs from the item's
\* previous updatedAt only if the clock has advanced since.
C18_ToggleTwiceRestores ==
    /\ []TwoTogglesRestore
    /\ [][ \A id \in StoreIds : HandleToggleTodo(id) =>
              \A i \in 1..Len(state.todos) :
                  state.todos[i].id = id =>
                      /\ state'.todos[i].completed = ~state.todos[i].completed
                      /\ state'.todos[i].updatedAt = now
                      /\ SameButUpdatedAt([state'.todos[i] EXCEPT !.completed = ~@],
                                          state.todos[i]) ]_vars

C18_Witness ==
    \E i \in 1..Len(state.todos) :
        /\ state.todos[i].title = <<"a">>
        /\ ~state.todos[i].completed
        /\ state.todos[i].createdAt = 1
        /\ state.todos[i].updatedAt = 2

\* C19: in every reachable state every item has updatedAt >= createdAt (the
\* clock never goes back), and no update or toggle changes an item's createdAt.
C19_TimestampsOrdered ==
    /\ [](\A i \in 1..Len(state.todos) :
             state.todos[i].updatedAt >= state.todos[i].createdAt)
    /\ [][ \A id \in StoreIds :
              (HandleToggleTodo(id)
                 \/ \E updates \in UpdateInputs : CallUpdateTodo(id, updates)) =>
                  /\ Len(state'.todos) = Len(state.todos)
                  /\ \A i \in 1..Len(state.todos) :
                        state'.todos[i].createdAt = state.todos[i].createdAt ]_vars

C19_Witness ==
    \E i \in 1..Len(state.todos) :
        /\ state.todos[i].title = <<>>
        /\ state.todos[i].completed
        /\ state.todos[i].createdAt = 1
        /\ state.todos[i].updatedAt = 2

\* C20: in every reachable state every item's title is non-empty after
\* trimming, whatever creates, updates, removes and toggles the facade was
\* asked for, an update carrying an empty title included.
C20_TitleNeverEmpty ==
    \A i \in 1..Len(state.todos) : trim(state.todos[i].title) # <<>>

\* a mutation action is dispatched in this step
MutationDispatched ==
    \/ \E rnd \in 1..MaxRand : Dispatch(AddAction(rnd))
    \/ \E id \in StoreIds, updates \in UpdateInputs : Dispatch(UpdateAction(id, updates))
    \/ \E id \in StoreIds : Dispatch(DeleteAction(id))
    \/ \E id \in StoreIds : Dispatch(ToggleAction(id))

\* C21: each of the four mutation transitions (create, update, remove,
\* toggle) yields a state whose error is null and whose loading flag is the
\* one of the state it was applied to.
C21_MutationClearsError ==
    [][ MutationDispatched =>
            /\ state'.error = Null
            /\ state'.loading = state.loading ]_vars

C21_Witness ==
    /\ state.error = Null
    /\ state.loading
    /\ Len(state.todos) = 2
    /\ state.todos[1].completed
    /\ state.todos[2].title = <<>>

\* the availability check of the call answered true exactly when the device
\* had hardware and an enrollment and no query raised
CheckReflectsDevice ==
    (call.checks = 1 /\ call.stable) =>
        (call.available <=> (hasHardware /\ isEnrolled /\ ~call.availThrew))

\* C22 as stated: a call issues the challenge if and only if its availability
\* check found hardware and enrollment both true, a failing query counting as
\* unavailable; no challenge is issued in a call whose check was false.
C22_ChallengeIffAvailable ==
    /\ CheckReflectsDevice
    /\ ~call.available => call.challenges = 0
    /\ (pc = "done" /\ call.checks = 1) => (call.challenges >= 1 <=> call.available)

\* C22 (amended): no challenge is issued in a call whose availability check
\* was false, a failing query counting as unavailable; after a check that
\* was true, authenticate checks again, and the challenge is issued only if
\* the device still has hardware and enrollment then; otherwise the call
\* ends FAILED with no challenge, the operation not invoked and the store
\* unchanged.
C22_ChallengeOnlyIfAvailable ==
    /\ []CheckReflectsDevice
    /\ [](call.challenges <= 1)
    /\ [](call.challenges = 1 => (call.checks = 1 /\ call.available))
    /\ [][ (pc = "authenticate" /\ pc' # pc) =>
              IF pc' = "challenge"
              THEN /\ hasHardware /\ isEnrolled
                   /\ call'.challenges = 1
              ELSE /\ pc' = "done"
                   /\ call'.outcome = "FAILED"
                   /\ call'.challenges = 0
                   /\ call'.opCount = 0
                   /\ result' = Undefined
                   /\ state' = state ]_vars

C22_Witness ==
    /\ pc = "done"
    /\ call.checks = 1
    /\ call.available
    /\ call.stable
    /\ call.challenges = 0
    /\ call.outcome = "FAILED"

\* the set of the types an array lists
Range(types) == {types[i] : i \in 1..Len(types)}

\* the name the priority order gives for a set of types
NameOf(set) ==
    IF FACIAL_RECOGNITION \in set THEN "Face ID"
    ELSE IF FINGERPRINT \in set THEN "Touch ID"
    ELSE IF IRIS \in set THEN "Iris"
    ELSE "Biometric"

\* C23: getBiometricTypeName answers 'Face ID' if the supported types contain
\* facial recognition, else 'Touch ID' if they contain fingerprint, else
\* 'Iris' if they contain iris, else 'Biometric'; two arrays listing the same
\* types in any order get the same name.
C23_TypeNameByPriority ==
    /\ [][ ServiceTypeName(FALSE) => biometricType' = NameOf(Range(supportedTypes)) ]_vars
    /\ [](\A types \in AllTypeLists :
             Range(types) = Range(supportedTypes) =>
                 getBiometricTypeName(types) = getBiometricTypeName(supportedTypes))

C23_Witness ==
    /\ supportedTypes = <<IRIS, FINGERPRINT>>
    /\ biometricType = "Touch ID"

\* biometricService.authenticate has resolved
Authenticated == call.checks = 1 /\ pc = "idle"

\* what holds of every resolved authenticate call whatever the claim's
\* reading of the message: it resolved to an AuthResult, success exactly when
\* biometrics were available and the challenge succeeded, a message in every
\* other case, 'Unknown authentication error' for a non-Error exception, and
\* no challenge when biometrics were unavailable
AuthResultShape ==
    Authenticated =>
        /\ result.success \in BOOLEAN
        /\ call.available <=> (hasHardware /\ isEnrolled /\ ~call.availThrew)
        /\ result.success <=> (call.available /\ call.challenge = "success")
        /\ ~result.success => result.error # None
        /\ call.challenge = "throw" => result.error = Some("Unknown authentication error")
        /\ ~call.available =>
              /\ call.challenges = 0
              /\ result = notAvailableResult

\* C24 as stated: authenticate never throws, succeeds exactly when biometrics
\* are available and the challenge succeeds, and in every other case returns
\* success = false with a non-empty error message.
C24_ErrorMessageNonEmpty ==
    /\ AuthResultShape
    /\ (Authenticated /\ ~result.success) => result.error # Some("")

\* C24 (amended): authenticate never throws, succeeds exactly when biometrics
\* are available and the challenge succeeds, issues no challenge when they
\* are unavailable, and otherwise returns success = false with a message,
\* which is non-empty except when the challenge raised an Error whose own
\* message is empty: that message is passed on as it is.
C24_AuthenticateNeverThrows ==
    /\ AuthResultShape
    /\ (Authenticated /\ ~result.success) =>
          (result.error = Some("") <=> call.challenge = "throwEmptyError")

C24_Witness ==
    /\ Authenticated
    /\ call.available
    /\ call.challenge = "throw"
    /\ result = [success |-> FALSE, error |-> Some("Unknown authentication error")]

\* C25: once saveTodos(todos) has succeeded, and until the next write to the
\* todo key, loadTodos returns todos, the same items in the same order;
\* loadTodos returns the empty list when the key is absent; and it does not
\* throw, whether the read is rejected or not.
C25_StorageRoundTrip ==
    /\ saved # None =>
          /\ storage.todos = stringify(saved[1])
          /\ loadTodos(storage.todos, FALSE) = [threw |-> FALSE, value |-> saved[1]]
    /\ storage.todos = Absent => loadTodos(storage.todos, FALSE).value = <<>>
    /\ \A rejected \in BOOLEAN : ~loadTodos(storage.todos, rejected).threw

C25_Witness ==
    /\ saved = Some(state.todos)
    /\ Len(state.todos) = 2
    /\ state.todos[1].description = Some(<<"x">>)
    /\ state.todos[1].completed
    /\ state.todos[2] = StoredTodo
    /\ loadTodos(storage.todos, storage.failing).value = state.todos

\* the two reads of initializeApp answer for what the storage holds: a
\* rejected read answers 'not the first launch', 'setup not complete'
FlagsRead ==
    /\ AppFirstLaunchRead =>
          (app'.isFirstLaunch <=> (storage.hasLaunched = Null /\ ~storage.failing))
    /\ AppSetupCompleteRead =>
          /\ app'.pc = "available" <=>
                (app.isFirstLaunch
                    \/ ~(storage.biometricSetup = "true" /\ ~storage.failing))
          /\ app'.pc # "available" => (app'.pc = "settled" /\ Mounted')

\* C26 as stated: the setup flow is started at a launch if and only if the
\* has-launched flag is absent or the biometric-setup flag is not 'true';
\* with both flags persisted a launch skips it and shows the todo list.
C26_SetupIffFlagMissing ==
    [][ AppSetupCompleteRead =>
            /\ app'.pc = "available" <=>
                  (storage.hasLaunched = Null \/ storage.biometricSetup # "true")
            /\ (storage.hasLaunched = "true" /\ storage.biometricSetup = "true") =>
                  (app'.pc = "settled" /\ Mounted') ]_vars

\* C26 (amended): the setup flow is started at a launch if and only if
\* isFirstLaunch answered true or isBiometricSetupComplete answered false;
\* the first answers true exactly when the has-launched flag is absent and
\* its read succeeds, the second answers true exactly when the
\* biometric-setup flag is 'true' and its read succeeds; a launch that does
\* not start the flow shows the todo list at once.  So with both flags
\* persisted a launch skips the flow unless the read of the biometric-setup
\* flag fails.
C26_SetupIffFlagsReadMissing ==
    /\ [][FlagsRead]_vars
    /\ [][ (AppSetupCompleteRead /\ ~storage.failing
              /\ storage.hasLaunched = "true" /\ storage.biometricSetup = "true") =>
                (app'.pc = "settled" /\ Mounted' /\ app'.dialog = {}) ]_vars

C26_Witness ==
    /\ app.launch = 2
    /\ app.pc = "settled"
    /\ Mounted
    /\ app.dialog = {}
    /\ ~app.isFirstLaunch
    /\ storage.hasLaunched = "true"
    /\ storage.biometricSetup = "true"
    /\ ~state.loading

\* the remove of this id is applied in this step
RemoveApplied(id) ==
    /\ op.kind = "delete"
    /\ op.id = id
    /\ call'.opCount = call.opCount + 1

\* C27: an item of the list stays in the list until the remove for its id
\* is applied, also when it was created while the restore was still in
\* progress: the completion of the restore does not discard it.
C27_CreatedItemSurvivesRestore ==
    [][ \A i \in 1..Len(state.todos) :
            \/ \E j \in 1..Len(state'.todos) : state'.todos[j].id = state.todos[i].id
            \/ RemoveApplied(state.todos[i].id) ]_vars

\* C28: a restore whose storage read or parse fails issues no write to the
\* todo key and leaves what is stored under it as it was.
C28_FailedRestoreWritesNothing ==
    [][ (RestoreCompletes /\ ReadFails) =>
            /\ saved' = saved
            /\ storage'.todos = storage.todos ]_vars

WritesInFlight ==
    /\ Len(storage.pending) = 2
    /\ storage.pending[1] # storage.pending[2]
    /\ storage.pending[2] = state.todos

OperationApplied ==
    /\ op.kind \in {"add", "update", "delete"}
    /\ call'.opCount = call.opCount + 1

\* C30: the store transition of a gated operation is applied to the items as
\* they are when the gate resolves: an update changes only what it carries,
\* so every item keeps the completed flag it has at that moment, and the items
\* with another id are as they are; a remove keeps every other item as it
\* is, in order; a create puts the new item before the items as they are.
C30_NoLostUpdate ==
    [][ OperationApplied =>
          /\ op.kind = "update" =>
                /\ Len(state'.todos) = Len(state.todos)
                /\ \A i \in 1..Len(state.todos) :
                      /\ state'.todos[i].id = state.todos[i].id
                      /\ state'.todos[i].completed = state.todos[i].completed
                      /\ state.todos[i].id # op.id => state'.todos[i] = state.todos[i]
                      /\ state.todos[i].id = op.id =>
                            state'.todos[i].title = op.updates.title
          /\ op.kind = "delete" =>
                state'.todos = SelectSeq(state.todos, LAMBDA todo : todo.id # op.id)
          /\ op.kind = "add" =>
                /\ Len(state'.todos) = Len(state.todos) + 1
                /\ Tail(state'.todos) = state.todos ]_vars

C30_Witness ==
    /\ pc = "done"
    /\ op.kind = "update"
    /\ call.opCount = 1
    /\ call.outcome = "SUCCEEDED"
    /\ \E i \in 1..Len(state.todos) :
          /\ state.todos[i].id = op.id
          /\ state.todos[i].completed
          /\ state.todos[i].title = <<>>

====
